---- MODULE Spec2Model ----
(***************************************************************************)
(* Model of pytd/writer.py: the three Writer variants (InsertIntoWriter,   *)
(* BulkImportWriter, SparkWriter) writing to one destination table.        *)
(*                                                                         *)
(* The module is single-threaded and synchronous, so every public method   *)
(* is one atomic action.  Each action records in `call` what the call was  *)
(* given, the remote operations it invoked (in order) and how it ended.    *)
(* Every remote operation may raise: the set `faults` of an action names   *)
(* the operations that raise if the call invokes them.                     *)
(***************************************************************************)
EXTENDS Integers, Sequences, FiniteSets, TLC

\* ---------------------------------------------------------------- bounds
MaxRows == 1       \* rows of the destination table are counted up to this
MaxRecords == 1    \* valid_records / error_records reported by perform

\* ------------------------------------------------------------ vocabulary
ValidPolicies == {"error", "overwrite", "append", "ignore"}
Policies == ValidPolicies \cup {"replace"}
\* the (apikey, endpoint) pairs of the table handles given to SparkWriter
Handles == {<<"K1", "E1">>, <<"K2", "E1">>, <<"K1", "E2">>}
SparkWriters == {1, 2}

\* payloads: one named, typed column; a time column holds unix times
Dataframes ==
  { <<[name |-> "a", dtype |-> t]>> : t \in {"int64", "float64", "object"} }
    \cup { <<[name |-> "time", dtype |-> "int64"]>> }

\* at most one remote operation raises within a call
FaultSets(ops) == {{}} \cup { {o} : o \in ops }

VARIABLES
  table,             \* the destination table on the remote side: exist, rows
  td_spark,          \* SparkWriter.td_spark, per writer instance
  fetched_apikey,    \* SparkWriter.fetched_apikey
  fetched_endpoint,  \* SparkWriter.fetched_endpoint
  session,           \* the process-wide engine session getOrCreate hands out
  environ,           \* os.environ["PYSPARK_SUBMIT_ARGS"]: apikey and endpoint
  jar,               \* the td-spark archive file at td_spark_path
  download_if_missing,  \* SparkWriter.download_if_missing
  call               \* the last call: inputs, remote operations invoked, outcome

spark == <<td_spark, fetched_apikey, fetched_endpoint, session, environ, jar,
           download_if_missing>>
vars == <<table, td_spark, fetched_apikey, fetched_endpoint, session, environ, jar,
          download_if_missing, call>>

\* ------------------------------------------------------- remote table
\* n more rows in a table whose rows are counted up to MaxRows
AddRows(rows, n) == IF rows + n < MaxRows THEN rows + n ELSE MaxRows

\* effect of one successful remote operation on the destination table
TableAfter(tbl, op, n) ==
  CASE op = "table.delete" -> [exist |-> FALSE, rows |-> 0]
    [] op = "table.create" -> [exist |-> TRUE, rows |-> 0]
    [] op = "query"        -> [tbl EXCEPT !.rows = AddRows(@, n)]
    [] op = "commit"       -> [tbl EXCEPT !.rows = AddRows(@, n)]
    [] OTHER               -> tbl

\* an operation that raised is tried a second time
RECURSIVE Invoked_Retry(_, _)
Invoked_Retry(plan, faults) ==
  IF plan = <<>> THEN <<>>
  ELSE IF Head(plan) \in faults THEN <<Head(plan), Head(plan)>>
  ELSE <<Head(plan)>> \o Invoked_Retry(Tail(plan), faults)

\* the operations of `plan` that are invoked: all of them up to and
\* including the first one that raises
RECURSIVE Invoked(_, _)
Invoked(plan, faults) ==
  IF plan = <<>> THEN <<>>
  ELSE IF Head(plan) \in faults THEN <<Head(plan)>>
  ELSE <<Head(plan)>> \o Invoked(Tail(plan), faults)

Raises(plan, faults) == \E i \in DOMAIN plan : plan[i] \in faults

\* the operation of `plan` that raised, if one did
Raised(plan, faults) ==
  IF Raises(plan, faults)
  THEN Invoked(plan, faults)[Len(Invoked(plan, faults))] ELSE "none"

\* the table after the invoked operations; the one that raised has no effect
RECURSIVE Apply(_, _, _, _)
Apply(tbl, plan, faults, n) ==
  IF plan = <<>> \/ Head(plan) \in faults THEN tbl
  ELSE Apply(TableAfter(tbl, Head(plan), n), Tail(plan), faults, n)

\* ------------------------------------------------- InsertIntoWriter
\* write_dataframe: type inference over the payload's columns
PrestoType(t) ==
  IF t = "int64" THEN "bigint" ELSE IF t = "float64" THEN "double" ELSE "varchar"

ColumnTypes(df) == [i \in DOMAIN df |-> PrestoType(df[i].dtype)]
ColumnNamesOf(df) == [i \in DOMAIN df |-> df[i].name]

\* the payload after write_dataframe: other columns are converted with astype(str)
InsertConverted(df) ==
  [i \in DOMAIN df |->
     IF df[i].dtype \in {"int64", "float64"} THEN df[i]
     ELSE [df[i] EXCEPT !.dtype = "str"]]

\* insert_into with "ignore" returning whether or not the table exists
InsertBranch_IgnoreFirst(exist, if_exists) ==
  IF if_exists = "ignore" THEN "return"
  ELSE IF exist
  THEN CASE if_exists = "error"     -> "raise_exists"
         [] if_exists = "append"    -> "pass"
         [] if_exists = "overwrite" -> "recreate"
         [] OTHER                   -> "raise_invalid"
  ELSE "create"

\* insert_into with "error" on an existing table treated like "append"
InsertBranch_ErrorAppends(exist, if_exists) ==
  IF exist
  THEN CASE if_exists = "ignore"    -> "return"
         [] if_exists \in {"error", "append"} -> "pass"
         [] if_exists = "overwrite" -> "recreate"
         [] OTHER                   -> "raise_invalid"
  ELSE "create"

\* insert_into: the branch taken on table.exist and if_exists
InsertBranch(exist, if_exists) ==
  IF exist
  THEN CASE if_exists = "error"     -> "raise_exists"
         [] if_exists = "ignore"    -> "return"
         [] if_exists = "append"    -> "pass"
         [] if_exists = "overwrite" -> "recreate"
         [] OTHER                   -> "raise_invalid"
  ELSE "create"

\* an overwrite that creates the table before it deletes it
InsertPlan_CreateFirst(branch) ==
  CASE branch = "pass"     -> <<"query">>
    [] branch = "recreate" -> <<"table.create", "table.delete", "query">>
    [] branch = "create"   -> <<"table.create", "query">>
    [] OTHER               -> <<>>

\* the remote operations insert_into goes on to invoke in that branch
InsertPlan(branch) ==
  CASE branch = "pass"     -> <<"query">>
    [] branch = "recreate" -> <<"table.delete", "table.create", "query">>
    [] branch = "create"   -> <<"table.create", "query">>
    [] OTHER               -> <<>>

BranchResult(branch) ==
  CASE branch = "raise_exists"      -> "TableExists"
    [] branch = "raise_invalid"     -> "InvalidPolicy"
    [] branch = "raise_unsupported" -> "AppendUnsupported"
    [] OTHER                        -> "ok"

NoCall ==
  [writer |-> "none", op |-> "none", self |-> 0, if_exists |-> "error",
   apikey |-> "", endpoint |-> "", existed |-> FALSE, given |-> <<>>,
   dataframe |-> <<>>, names |-> <<>>, schema |-> <<>>, ops |-> <<>>, raised |-> "none",
   result |-> "ok", valid_records |-> 0, error_records |-> 0, session |-> "none"]

OpsOf(seq) == {seq[i] : i \in DOMAIN seq}

\* an insert_into that decides on the existence the previous call saw
InsertIntoWrite_StaleExist(df, if_exists, faults) ==
  LET branch == InsertBranch(call.existed, if_exists)
      plan   == InsertPlan(branch)
  IN /\ table' = Apply(table, plan, faults, 1)
     /\ call' = [NoCall EXCEPT
                   !.writer = "insert_into", !.op = "write_dataframe",
                   !.if_exists = if_exists, !.existed = call.existed,
                   !.given = df, !.dataframe = InsertConverted(df),
                   !.ops = Invoked(plan, faults),
                   !.raised = Raised(plan, faults),
                   !.result = IF BranchResult(branch) # "ok" THEN BranchResult(branch)
                              ELSE IF Raises(plan, faults) THEN "RemoteError"
                              ELSE "ok"]
     /\ UNCHANGED spark

\* InsertIntoWriter.write_dataframe
InsertIntoWrite(df, if_exists, faults) ==
  LET branch == InsertBranch(table.exist, if_exists)
      plan   == InsertPlan(branch)
  IN /\ table' = Apply(table, plan, faults, 1)
     /\ call' = [NoCall EXCEPT
                   !.writer = "insert_into", !.op = "write_dataframe",
                   !.if_exists = if_exists, !.existed = table.exist,
                   !.given = df, !.dataframe = InsertConverted(df),
                   !.names = IF "table.create" \in OpsOf(plan)
                             THEN ColumnNamesOf(df) ELSE <<>>,
                   !.schema = IF "table.create" \in OpsOf(plan)
                              THEN ColumnTypes(df) ELSE <<>>,
                   !.ops = <<"table.exist">> \o Invoked(plan, faults),
                   !.raised = Raised(plan, faults),
                   !.result = IF BranchResult(branch) # "ok" THEN BranchResult(branch)
                              ELSE IF Raises(plan, faults) THEN "RemoteError"
                              ELSE "ok"]
     /\ UNCHANGED spark

\* ------------------------------------------------- BulkImportWriter
\* write_dataframe: a `time` column is added when the payload has none
HasTime(df) == \E i \in DOMAIN df : df[i].name = "time"

\* a write_dataframe that adds the column without testing for it
BulkWithTime_Always(df) == Append(df, [name |-> "time", dtype |-> "int64"])

BulkWithTime(df) ==
  IF ~HasTime(df) THEN Append(df, [name |-> "time", dtype |-> "int64"]) ELSE df

\* bulk_import with "ignore" on an existing table treated like "overwrite"
BulkBranch_IgnoreOverwrites(exist, if_exists) ==
  IF exist
  THEN CASE if_exists = "error"     -> "raise_exists"
         [] if_exists = "append"    -> "raise_unsupported"
         [] if_exists \in {"ignore", "overwrite"} -> "recreate"
         [] OTHER                   -> "raise_invalid"
  ELSE "create"

\* bulk_import: the branch taken on table.exist and if_exists
BulkBranch(exist, if_exists) ==
  IF exist
  THEN CASE if_exists = "error"     -> "raise_exists"
         [] if_exists = "ignore"    -> "return"
         [] if_exists = "append"    -> "raise_unsupported"
         [] if_exists = "overwrite" -> "recreate"
         [] OTHER                   -> "raise_invalid"
  ELSE "create"

\* the table operations bulk_import invokes before it opens a session
BulkPlan(branch) ==
  CASE branch = "recreate" -> <<"table.delete", "table.create">>
    [] branch = "create"   -> <<"table.create">>
    [] OTHER               -> <<>>

\* the records test with <= in place of <
HasValidRecords_OrZero(valid_records) == 0 <= valid_records

\* the test that decides between commit and the "no records" failure
HasValidRecords(valid_records) == 0 < valid_records

\* the except handler around upload_file and freeze: delete, then re-raise
UploadFailure(tried, reached, faults) ==
  [ops |-> tried \o <<"bulk_import.delete">>,
   result |-> IF "bulk_import.delete" \in faults THEN "RemoteError" ELSE "UploadFailed",
   session |-> IF "bulk_import.delete" \in faults THEN reached ELSE "deleted",
   raised |-> tried[Len(tried)], committed |-> FALSE]

\* the protocol with perform issued before freeze
BulkSession_PerformBeforeFreeze(faults, valid_records) ==
  LET upto(k) == SubSeq(<<"create_bulk_import", "upload_file", "perform", "freeze",
                          "commit", "bulk_import.delete">>, 1, k)
  IN IF "create_bulk_import" \in faults
     THEN [ops |-> upto(1), result |-> "RemoteError", session |-> "none",
           raised |-> "create_bulk_import", committed |-> FALSE]
     ELSE IF "upload_file" \in faults THEN UploadFailure(upto(2), "created", faults)
     ELSE IF "freeze" \in faults THEN UploadFailure(upto(3), "uploaded", faults)
     ELSE IF "perform" \in faults
     THEN [ops |-> upto(4), result |-> "RemoteError", session |-> "frozen",
           raised |-> "perform", committed |-> FALSE]
     ELSE IF ~HasValidRecords(valid_records)
     THEN [ops |-> upto(4), result |-> "NoRecords", session |-> "performed",
           raised |-> "none", committed |-> FALSE]
     ELSE IF "commit" \in faults
     THEN [ops |-> upto(5), result |-> "RemoteError", session |-> "performed",
           raised |-> "commit", committed |-> FALSE]
     ELSE IF "bulk_import.delete" \in faults
     THEN [ops |-> upto(6), result |-> "RemoteError", session |-> "committed",
           raised |-> "bulk_import.delete", committed |-> TRUE]
     ELSE [ops |-> upto(6), result |-> "ok", session |-> "deleted",
           raised |-> "none", committed |-> TRUE]

\* the session protocol of bulk_import, from create_bulk_import on: the
\* operations invoked, the outcome, and the state the session is left in
BulkSession(faults, valid_records) ==
  LET upto(k) == SubSeq(<<"create_bulk_import", "upload_file", "freeze", "perform",
                          "commit", "bulk_import.delete">>, 1, k)
  IN IF "create_bulk_import" \in faults
     THEN [ops |-> upto(1), result |-> "RemoteError", session |-> "none",
           raised |-> "create_bulk_import", committed |-> FALSE]
     ELSE IF "upload_file" \in faults THEN UploadFailure(upto(2), "created", faults)
     ELSE IF "freeze" \in faults THEN UploadFailure(upto(3), "uploaded", faults)
     ELSE IF "perform" \in faults
     THEN [ops |-> upto(4), result |-> "RemoteError", session |-> "frozen",
           raised |-> "perform", committed |-> FALSE]
     ELSE IF ~HasValidRecords(valid_records)
     THEN [ops |-> upto(4), result |-> "NoRecords", session |-> "performed",
           raised |-> "none", committed |-> FALSE]
     ELSE IF "commit" \in faults
     THEN [ops |-> upto(5), result |-> "RemoteError", session |-> "performed",
           raised |-> "commit", committed |-> FALSE]
     ELSE IF "bulk_import.delete" \in faults
     THEN [ops |-> upto(6), result |-> "RemoteError", session |-> "committed",
           raised |-> "bulk_import.delete", committed |-> TRUE]
     ELSE [ops |-> upto(6), result |-> "ok", session |-> "deleted",
           raised |-> "none", committed |-> TRUE]

BulkImportOps ==
  {"table.delete", "table.create", "create_bulk_import", "upload_file", "freeze",
   "perform", "commit", "bulk_import.delete"}

BulkImportWrite(df, if_exists, valid_records, error_records, faults) ==
  LET branch   == BulkBranch(table.exist, if_exists)
      plan     == BulkPlan(branch)
      proceeds == BranchResult(branch) = "ok" /\ branch # "return"
      opened   == proceeds /\ ~Raises(plan, faults)
      s        == BulkSession(faults, valid_records)
      created  == Apply(table, plan, faults, 0)
  IN /\ table' = IF opened /\ s.committed
                 THEN TableAfter(created, "commit", valid_records) ELSE created
     /\ call' = [NoCall EXCEPT
                   !.writer = "bulk_import", !.op = "write_dataframe",
                   !.if_exists = if_exists, !.existed = table.exist,
                   !.given = df, !.dataframe = BulkWithTime(df),
                   !.ops = <<"table.exist">> \o Invoked(plan, faults)
                             \o (IF opened THEN s.ops ELSE <<>>),
                   !.raised = IF opened THEN s.raised ELSE Raised(plan, faults),
                   !.result = IF ~proceeds THEN BranchResult(branch)
                              ELSE IF ~opened THEN "RemoteError"
                              ELSE s.result,
                   !.valid_records = IF opened /\ "perform" \in OpsOf(s.ops)
                                        /\ "perform" \notin faults
                                     THEN valid_records ELSE 0,
                   !.error_records = IF opened /\ "perform" \in OpsOf(s.ops)
                                        /\ "perform" \notin faults
                                     THEN error_records ELSE 0,
                   !.session = IF opened THEN s.session ELSE "none"]
     /\ UNCHANGED spark


\* ------------------------------------------------------ SparkWriter
\* A writer's td_spark is None, the session getOrCreate currently hands
\* out ("current"), or a session that was stopped and has been replaced
\* since ("old").
NoSession == [apikey |-> "", endpoint |-> "", stopped |-> TRUE, launched |-> FALSE]

\* self.td_spark._jsc.sc().isStopped()
IsStopped(w) == td_spark[w] = "old" \/ (td_spark[w] = "current" /\ session.stopped)

\* the test without its isStopped() half
NeedsFetch_OnlyNone(w) == td_spark[w] = "None"

\* a write_dataframe that fetches a session on every call
NeedsFetch_Always(w) == TRUE

\* the test that sends write_dataframe into _fetch_td_spark
NeedsFetch(w) == td_spark[w] = "None" \/ IsStopped(w)

\* the identity test with `and` in place of `or`
Mismatch_Both(w, apikey, endpoint) ==
  apikey # fetched_apikey[w] /\ endpoint # fetched_endpoint[w]

\* the identity test of write_dataframe
Mismatch(w, apikey, endpoint) ==
  apikey # fetched_apikey[w] \/ endpoint # fetched_endpoint[w]

\* SparkSession.builder.getOrCreate(): the running session of the process
\* if there is one, else a new one launched with PYSPARK_SUBMIT_ARGS
GetOrCreate(env) ==
  IF session.launched /\ ~session.stopped THEN session
  ELSE [apikey |-> env[1], endpoint |-> env[2], stopped |-> FALSE, launched |-> TRUE]

\* the engine's write under a save mode
EngineSave(tbl, mode) ==
  IF ~tbl.exist THEN [raised |-> FALSE, table |-> [exist |-> TRUE, rows |-> 1]]
  ELSE CASE mode = "error"     -> [raised |-> TRUE, table |-> tbl]
         [] mode = "ignore"    -> [raised |-> FALSE, table |-> tbl]
         [] mode = "append"    -> [raised |-> FALSE,
                                   table |-> [tbl EXCEPT !.rows = AddRows(@, 1)]]
         [] OTHER              -> [raised |-> FALSE, table |-> [exist |-> TRUE, rows |-> 1]]

SparkOps ==
  {"import pyspark", "urlopen", "open", "write", "getOrCreate", "createDataFrame",
   "save", "save.API_ACCESS_FAILURE"}

\* _download_td_spark: the operations invoked, the outcome and the file
\* left at the destination.  An HTTPError of urlopen is wrapped.  A failure
\* inside the `with open(...)` block runs os.remove and re-raises; when it
\* was open that failed there is no file, and os.remove raises in its turn.
DownloadTdSpark(faults) ==
  IF "urlopen" \in faults
  THEN [ops |-> <<"urlopen">>, result |-> "DownloadAccessFailed",
        raised |-> "urlopen", jar |-> "absent"]
  ELSE IF "open" \in faults
  THEN [ops |-> <<"urlopen", "open", "os.remove">>, result |-> "RemoveFailed",
        raised |-> "open", jar |-> "absent"]
  ELSE IF "write" \in faults
  THEN [ops |-> <<"urlopen", "open", "write", "os.remove">>, result |-> "WriteFailed",
        raised |-> "write", jar |-> "absent"]
  ELSE [ops |-> <<"urlopen", "open", "write">>, result |-> "ok",
        raised |-> "none", jar |-> "complete"]

\* _fetch_td_spark: the operations invoked and the outcome; env tells
\* whether PYSPARK_SUBMIT_ARGS was set
FetchTdSpark(available, download, faults) ==
  LET d   == DownloadTdSpark(faults)
      pre == <<"_fetch_td_spark">> \o (IF ~available /\ download THEN d.ops ELSE <<>>)
  IN IF "import pyspark" \in faults
     THEN [ops |-> <<"_fetch_td_spark">>, result |-> "PySparkMissing", env |-> FALSE,
           raised |-> "import pyspark", jar |-> IF available THEN "complete" ELSE "absent"]
     ELSE IF ~available /\ download /\ d.result # "ok"
     THEN [ops |-> pre, result |-> d.result, env |-> FALSE, raised |-> d.raised,
           jar |-> d.jar]
     ELSE IF ~available /\ ~download
     THEN [ops |-> pre, result |-> "JarNotFound", env |-> FALSE, raised |-> "none",
           jar |-> "absent"]
     ELSE IF "getOrCreate" \in faults
     THEN [ops |-> pre \o <<"getOrCreate">>, result |-> "ConnectFailed", env |-> TRUE,
           raised |-> "getOrCreate", jar |-> "complete"]
     ELSE [ops |-> pre \o <<"getOrCreate">>, result |-> "ok", env |-> TRUE,
           raised |-> "none", jar |-> "complete"]

\* the write path of write_dataframe once a session is held
EngineWrite(tbl, mode, faults) ==
  IF "createDataFrame" \in faults
  THEN [ops |-> <<"createDataFrame">>, result |-> "RemoteError",
        raised |-> "createDataFrame", table |-> tbl]
  ELSE IF "save.API_ACCESS_FAILURE" \in faults
  THEN [ops |-> <<"createDataFrame", "save">>, result |-> "AccessDenied",
        raised |-> "save", table |-> tbl]
  ELSE IF "save" \in faults \/ EngineSave(tbl, mode).raised
  THEN [ops |-> <<"createDataFrame", "save">>, result |-> "LoadFailed",
        raised |-> "save", table |-> tbl]
  ELSE [ops |-> <<"createDataFrame", "save">>, result |-> "ok",
        raised |-> "none", table |-> EngineSave(tbl, mode).table]

SparkCall(w, if_exists, apikey, endpoint) ==
  [NoCall EXCEPT !.writer = "spark", !.op = "write_dataframe", !.self = w,
                 !.if_exists = if_exists, !.apikey = apikey, !.endpoint = endpoint,
                 !.existed = table.exist]

SparkWrite(w, if_exists, apikey, endpoint, faults) ==
  IF if_exists \notin ValidPolicies
  THEN /\ call' = [SparkCall(w, if_exists, apikey, endpoint) EXCEPT
                     !.result = "InvalidPolicy"]
       /\ UNCHANGED <<table, spark>>
  ELSE IF NeedsFetch(w)
  THEN LET f   == FetchTdSpark(jar = "complete", download_if_missing[w], faults)
           env == IF f.env THEN <<apikey, endpoint>> ELSE environ
           got == GetOrCreate(env)
           e   == EngineWrite(table, if_exists, faults)
       IN /\ environ' = env
          /\ jar' = f.jar
          /\ UNCHANGED download_if_missing
          /\ IF f.result = "ok"
             THEN /\ session' = got
                  /\ td_spark' = [x \in SparkWriters |->
                                    IF x = w THEN "current"
                                    ELSE IF got # session /\ td_spark[x] = "current"
                                    THEN "old" ELSE td_spark[x]]
                  /\ fetched_apikey' = [fetched_apikey EXCEPT ![w] = apikey]
                  /\ fetched_endpoint' = [fetched_endpoint EXCEPT ![w] = endpoint]
                  /\ table' = e.table
                  /\ call' = [SparkCall(w, if_exists, apikey, endpoint) EXCEPT
                                !.ops = f.ops \o e.ops, !.raised = e.raised,
                                !.result = e.result]
             ELSE /\ call' = [SparkCall(w, if_exists, apikey, endpoint) EXCEPT
                                !.ops = f.ops, !.raised = f.raised,
                                !.result = f.result]
                  /\ UNCHANGED <<table, td_spark, fetched_apikey, fetched_endpoint,
                                 session>>
  ELSE IF Mismatch(w, apikey, endpoint)
  THEN /\ call' = [SparkCall(w, if_exists, apikey, endpoint) EXCEPT
                     !.result = "IdentityMismatch"]
       /\ UNCHANGED <<table, spark>>
  ELSE LET e == EngineWrite(table, if_exists, faults)
       IN /\ table' = e.table
          /\ call' = [SparkCall(w, if_exists, apikey, endpoint) EXCEPT
                        !.ops = e.ops, !.raised = e.raised, !.result = e.result]
          /\ UNCHANGED spark

\* a close that also forgets the session it held
SparkClose_Forgets(w) ==
  /\ session' = IF td_spark[w] = "current" THEN [session EXCEPT !.stopped = TRUE]
                ELSE session
  /\ td_spark' = [td_spark EXCEPT ![w] = "None"]
  /\ call' = [NoCall EXCEPT !.writer = "spark", !.op = "close", !.self = w,
                            !.ops = IF td_spark[w] # "None" THEN <<"stop">> ELSE <<>>]
  /\ UNCHANGED <<table, fetched_apikey, fetched_endpoint, environ, jar,
                 download_if_missing>>

\* SparkWriter.close
SparkClose(w) ==
  /\ session' = IF td_spark[w] = "current" THEN [session EXCEPT !.stopped = TRUE]
                ELSE session
  /\ call' = [NoCall EXCEPT !.writer = "spark", !.op = "close", !.self = w,
                            !.ops = IF td_spark[w] # "None" THEN <<"stop">> ELSE <<>>]
  /\ UNCHANGED <<table, td_spark, fetched_apikey, fetched_endpoint, environ, jar,
                 download_if_missing>>

\* Writer.close, inherited by InsertIntoWriter and BulkImportWriter
WriterClose(writer) ==
  /\ call' = [NoCall EXCEPT !.writer = writer, !.op = "close"]
  /\ UNCHANGED <<table, spark>>

Init ==
  /\ table \in { [exist |-> FALSE, rows |-> 0] } \cup
               { [exist |-> TRUE, rows |-> r] : r \in 0..MaxRows }
  /\ td_spark = [w \in SparkWriters |-> "None"]
  /\ fetched_apikey = [w \in SparkWriters |-> ""]
  /\ fetched_endpoint = [w \in SparkWriters |-> ""]
  /\ session = NoSession
  /\ environ = <<"", "">>
  /\ jar = "complete"
  /\ download_if_missing = [w \in SparkWriters |-> TRUE]
  /\ call = NoCall

\* the same with the archive possibly missing, and the first SparkWriter
\* constructed with either value of download_if_missing
InitMissing ==
  /\ table \in { [exist |-> FALSE, rows |-> 0] } \cup
               { [exist |-> TRUE, rows |-> r] : r \in 0..MaxRows }
  /\ td_spark = [w \in SparkWriters |-> "None"]
  /\ fetched_apikey = [w \in SparkWriters |-> ""]
  /\ fetched_endpoint = [w \in SparkWriters |-> ""]
  /\ session = NoSession
  /\ environ = <<"", "">>
  /\ jar \in {"absent", "complete"}
  /\ download_if_missing \in { [w \in SparkWriters |-> w # 1 \/ b] : b \in BOOLEAN }
  /\ call = NoCall

InsertOps == {"table.delete", "table.create", "query"}

\* the calls of each writer, over given sets of inputs
InsertStep(dfs, ops) ==
  \E df \in dfs, p \in Policies, f \in FaultSets(ops) : InsertIntoWrite(df, p, f)

BulkStep(dfs, records, ops) ==
  \E df \in dfs, p \in Policies, v \in records, e \in records, f \in FaultSets(ops) :
    BulkImportWrite(df, p, v, e, f)

SparkStep(ws, hs, ops) ==
  \E w \in ws, p \in Policies, h \in hs, f \in FaultSets(ops) :
    SparkWrite(w, p, h[1], h[2], f)

\* every writer, one payload, one SparkWriter instance
Next ==
  \/ InsertStep({<<[name |-> "a", dtype |-> "object"]>>}, InsertOps)
  \/ BulkStep({<<[name |-> "a", dtype |-> "object"]>>}, 0..MaxRecords, BulkImportOps)
  \/ SparkStep({1}, {<<"K1", "E1">>, <<"K2", "E1">>}, SparkOps)
  \/ SparkClose(1)
  \/ \E wr \in {"insert_into", "bulk_import"} : WriterClose(wr)

Spec == InitMissing /\ [][Next]_vars

\* InsertIntoWriter alone, every payload
NextInsert ==
  \/ InsertStep(Dataframes, InsertOps)
  \/ WriterClose("insert_into")

SpecInsert == Init /\ [][NextInsert]_vars

\* BulkImportWriter alone, every payload
NextBulk ==
  \/ BulkStep(Dataframes, 0..MaxRecords, BulkImportOps)
  \/ WriterClose("bulk_import")

SpecBulk == Init /\ [][NextBulk]_vars

\* InsertIntoWriter and BulkImportWriter, every payload
NextLoad ==
  \/ InsertStep(Dataframes, InsertOps)
  \/ BulkStep(Dataframes, 0..MaxRecords, BulkImportOps)
  \/ \E wr \in {"insert_into", "bulk_import"} : WriterClose(wr)

SpecLoad == Init /\ [][NextLoad]_vars

\* two SparkWriter instances in one process; session creation and the
\* engine's write may fail
NextSpark ==
  \/ SparkStep(SparkWriters, Handles, {"getOrCreate", "save"})
  \/ \E w \in SparkWriters : SparkClose(w)
  \/ \E wr \in {"insert_into", "bulk_import"} : WriterClose(wr)

SpecSpark == Init /\ [][NextSpark]_vars

\* ================================================================ claims
IsWrite == call.op = "write_dataframe"
TableOps == {"table.delete", "table.create"}
WriteOps == {"query", "create_bulk_import"}
Called(op) == op \in OpsOf(call.ops)

\* the step just taken was a write_dataframe call (described by call')
WriteStep == call'.op = "write_dataframe"

\* C1: a write with if_exists = "error" while the table exists fails, and
\* the call invokes no table.delete, table.create, INSERT query or
\* bulk-import session and leaves the table as it was.
C1_ErrorOnExistingFails ==
  [][(WriteStep /\ call'.if_exists = "error" /\ table.exist) =>
       /\ call'.result # "ok"
       /\ OpsOf(call'.ops) \cap (TableOps \cup WriteOps) = {}
       /\ table' = table]_vars

C1_Witness ==
  /\ IsWrite /\ call.writer = "spark" /\ call.if_exists = "error" /\ call.existed
  /\ Called("save") /\ call.result = "LoadFailed"

\* C2 (as stated): a write with if_exists = "ignore" while the table exists
\* returns successfully, for every writer, without any delete, create or
\* data write.
C2_IgnoreAlwaysSucceeds ==
  [][(WriteStep /\ call'.if_exists = "ignore" /\ table.exist) =>
       /\ call'.result = "ok"
       /\ OpsOf(call'.ops) \cap (TableOps \cup WriteOps) = {}
       /\ table' = table]_vars

\* C2 (amended): such a call never deletes, creates or writes; it returns
\* successfully on InsertIntoWriter and BulkImportWriter; on SparkWriter it
\* returns successfully once the engine's save has run without raising, and
\* otherwise fails only on an identity mismatch, a failed session creation
\* or an error raised by the engine.
C2_IgnoreWritesNothing ==
  [][(WriteStep /\ call'.if_exists = "ignore" /\ table.exist) =>
       /\ OpsOf(call'.ops) \cap (TableOps \cup WriteOps) = {}
       /\ table' = table
       /\ call'.writer \in {"insert_into", "bulk_import"} =>
            call'.result = "ok" /\ call'.ops = <<"table.exist">>
       /\ call'.writer = "spark" =>
            /\ call'.result \in {"ok", "IdentityMismatch", "PySparkMissing",
                                 "DownloadAccessFailed", "RemoveFailed", "WriteFailed",
                                 "JarNotFound", "ConnectFailed", "RemoteError",
                                 "AccessDenied", "LoadFailed"}
            /\ call'.result = "IdentityMismatch" =>
                 /\ td_spark[call'.self] = "current" /\ ~session.stopped
                 /\ \/ call'.apikey # fetched_apikey[call'.self]
                    \/ call'.endpoint # fetched_endpoint[call'.self]
            /\ call'.result = "ok" =>
                 call'.ops # <<>> /\ call'.ops[Len(call'.ops)] = "save"
     ]_vars

C2_Witness ==
  /\ IsWrite /\ call.writer = "bulk_import" /\ call.if_exists = "ignore"
  /\ call.existed /\ call.result = "ok"

\* C3: BulkImportWriter rejects if_exists = "append" whether or not the
\* table exists: the call fails and creates neither the table nor a
\* bulk-import session.
C3_AppendRejected ==
  (IsWrite /\ call.writer = "bulk_import" /\ call.if_exists = "append") =>
    /\ call.result = "AppendUnsupported"
    /\ ~Called("table.create")
    /\ ~Called("create_bulk_import")

\* C4: every writer rejects an if_exists value outside the four policies
\* with an invalid-argument failure, whether or not the table exists, and
\* such a call creates no table and writes no data.
C4_UnknownPolicyRejected ==
  (IsWrite /\ call.if_exists \notin {"error", "overwrite", "append", "ignore"}) =>
    /\ call.result = "InvalidPolicy"
    /\ OpsOf(call.ops) \cap (TableOps \cup WriteOps \cup {"save"}) = {}

\* C5: when a bulk_import call that created a remote session returns or
\* fails, that session has been deleted.
C5_SessionNeverDangling ==
  (IsWrite /\ call.writer = "bulk_import" /\ call.session # "none") =>
    call.session = "deleted"

\* C6: when perform reports valid_records = 0, commit is not invoked and
\* the call fails; commit is invoked only when valid_records > 0; the call
\* fails for lack of records only when valid_records = 0, whatever
\* error_records is.
Performed ==
  Called("perform") /\ call.session \in {"performed", "committed", "deleted"}

C6_CommitOnlyWithValidRecords ==
  (IsWrite /\ call.writer = "bulk_import") =>
    /\ Called("commit") => Performed /\ call.valid_records > 0
    /\ (Performed /\ call.valid_records = 0) =>
         ~Called("commit") /\ call.result = "NoRecords"
    /\ call.result = "NoRecords" => Performed /\ call.valid_records = 0
    /\ (Performed /\ call.valid_records > 0) => Called("commit")

C6_Witness ==
  /\ IsWrite /\ call.writer = "bulk_import" /\ Performed
  /\ call.valid_records = 0 /\ call.error_records > 0 /\ call.result = "NoRecords"

\* C7: a failed call on InsertIntoWriter or BulkImportWriter that ran
\* table.create or table.delete does not leave the table newly created and
\* empty, nor deleted and not recreated.
C7_NoHalfCreatedTable ==
  (IsWrite /\ call.writer \in {"insert_into", "bulk_import"} /\ call.result # "ok") =>
    /\ ~(Called("table.create") /\ table.exist /\ table.rows = 0)
    /\ ~(Called("table.delete") /\ call.existed /\ ~table.exist)

\* C8: a write on a SparkWriter whose session is active and was fetched for
\* the identity of the given table handle does not construct a session:
\* _fetch_td_spark is not invoked and the held session is kept; a write on
\* a writer without an active session invokes _fetch_td_spark once.  So over
\* two consecutive writes with one identity it is invoked exactly once.
FetchCalls(ops) == Cardinality({i \in DOMAIN ops : ops[i] = "_fetch_td_spark"})

C8_SessionReused ==
  [][(WriteStep /\ call'.writer = "spark" /\ call'.if_exists \in ValidPolicies) =>
       LET w == call'.self
           active == td_spark[w] = "current" /\ ~session.stopped
       IN /\ (active /\ call'.apikey = fetched_apikey[w]
                     /\ call'.endpoint = fetched_endpoint[w]) =>
               /\ FetchCalls(call'.ops) = 0
               /\ td_spark'[w] = td_spark[w] /\ session' = session
          /\ ~active => FetchCalls(call'.ops) = 1
     ]_vars

\* a second write, through the session the first one fetched
C8_Witness ==
  /\ IsWrite /\ call.writer = "spark" /\ call.result = "ok"
  /\ td_spark[call.self] = "current" /\ ~session.stopped
  /\ call.apikey = fetched_apikey[call.self]
  /\ call.endpoint = fetched_endpoint[call.self]
  /\ FetchCalls(call.ops) = 0 /\ Called("save")

\* C9 (as stated): a write on a SparkWriter holding an active session, with
\* a table handle whose apikey or endpoint differs from the recorded ones,
\* fails with an identity-mismatch error and changes nothing.
MismatchStep ==
  /\ WriteStep /\ call'.writer = "spark"
  /\ td_spark[call'.self] = "current" /\ ~session.stopped
  /\ \/ call'.apikey # fetched_apikey[call'.self]
     \/ call'.endpoint # fetched_endpoint[call'.self]

C9_MismatchFails ==
  [][MismatchStep =>
       /\ call'.result = "IdentityMismatch"
       /\ UNCHANGED <<table, td_spark, fetched_apikey, fetched_endpoint, session>>]_vars

\* C9 (amended): with a valid if_exists value the call fails with an
\* identity-mismatch error; with an invalid one it fails with the
\* invalid-argument error instead; either way it changes nothing.
C9_MismatchFailsValidPolicy ==
  [][MismatchStep =>
       /\ call'.result = IF call'.if_exists \in {"error", "overwrite", "append", "ignore"}
                         THEN "IdentityMismatch" ELSE "InvalidPolicy"
       /\ call'.ops = <<>>
       /\ UNCHANGED <<table, spark>>]_vars

C9_Witness ==
  /\ IsWrite /\ call.writer = "spark" /\ call.result = "IdentityMismatch"
  /\ td_spark[call.self] = "current" /\ ~session.stopped
  /\ call.endpoint # fetched_endpoint[call.self]

\* C10 (as stated): SparkWriter.close() stops an active session; with no
\* session or an already stopped one it invokes no stop and changes
\* nothing; Writer.close() does nothing.
CloseStep == call'.op = "close"

C10_CloseInvokesNoStop ==
  [][CloseStep =>
       IF call'.writer = "spark"
       THEN LET w == call'.self
                active == td_spark[w] = "current" /\ ~session.stopped
            IN /\ active => call'.ops = <<"stop">> /\ session'.stopped
               /\ ~active => call'.ops = <<>> /\ UNCHANGED <<table, spark>>
       ELSE call'.ops = <<>> /\ UNCHANGED <<table, spark>>]_vars

\* C10 (amended): with no session close() invokes nothing; with an already
\* stopped session it invokes stop on it again, which changes nothing; so in
\* both states the writer, the session and the table are left as they were.
C10_CloseIdempotent ==
  [][CloseStep =>
       IF call'.writer = "spark"
       THEN LET w == call'.self
                active == td_spark[w] = "current" /\ ~session.stopped
            IN /\ active => /\ call'.ops = <<"stop">> /\ session'.stopped
                            /\ UNCHANGED <<table, td_spark, fetched_apikey,
                                           fetched_endpoint, environ>>
               /\ td_spark[w] = "None" => call'.ops = <<>>
               /\ (~active /\ td_spark[w] # "None") => call'.ops = <<"stop">>
               /\ ~active => UNCHANGED <<table, spark>>
       ELSE call'.ops = <<>> /\ UNCHANGED <<table, spark>>]_vars

\* close() on a session that was stopped and has been replaced since
C10_Witness ==
  /\ call.op = "close" /\ call.writer = "spark"
  /\ td_spark[call.self] = "old" /\ call.ops = <<"stop">>

\* C11: a write_dataframe call that fails on a bad policy value, on an
\* existing table under "error", on an unsupported "append" or on a Spark
\* identity mismatch has changed nothing: not the table, not a remote
\* session, not the engine session or the environment, not the payload.
PreconditionFailures ==
  {"InvalidPolicy", "TableExists", "AppendUnsupported", "IdentityMismatch"}

C11_PreconditionFailureChangesNothing ==
  [][(WriteStep /\ call'.result \in PreconditionFailures) =>
       /\ table' = table
       /\ UNCHANGED spark
       /\ call'.session = "none"
       /\ call'.dataframe = call'.given]_vars

\* C12: BulkImportWriter.write_dataframe adds a `time` column (unix time,
\* an integer) at the end of the payload exactly when the payload has no
\* `time` column; a payload that has one is left as it was given.
C12_TimeColumnWhenAbsent ==
  (IsWrite /\ call.writer = "bulk_import") =>
    LET g == call.given
        d == call.dataframe
    IN IF \E i \in DOMAIN g : g[i].name = "time"
       THEN d = g
       ELSE /\ Len(d) = Len(g) + 1
            /\ SubSeq(d, 1, Len(g)) = g
            /\ d[Len(d)] = [name |-> "time", dtype |-> "int64"]

C12_Witness ==
  /\ IsWrite /\ call.writer = "bulk_import"
  /\ call.given = <<[name |-> "a", dtype |-> "float64"]>>
  /\ Len(call.dataframe) = 2 /\ call.dataframe[2].name = "time"

\* C13: within a bulk_import call the session operations occur only in the
\* order create, upload, freeze, perform, commit, delete: each at most once,
\* upload after create, freeze after upload, perform only after a freeze
\* that did not raise, commit only after a perform that did not raise, no
\* upload after freeze, and nothing after delete.
Positions(op) == {i \in DOMAIN call.ops : call.ops[i] = op}
Precedes(a, b) == \A j \in Positions(b) : \E i \in Positions(a) : i < j

C13_SessionOperationOrder ==
  (IsWrite /\ call.writer = "bulk_import") =>
    /\ \A op \in {"create_bulk_import", "upload_file", "freeze", "perform", "commit",
                  "bulk_import.delete"} : Cardinality(Positions(op)) <= 1
    /\ Precedes("create_bulk_import", "upload_file")
    /\ Precedes("upload_file", "freeze")
    /\ Precedes("freeze", "perform")
    /\ Precedes("perform", "commit")
    /\ Precedes("create_bulk_import", "bulk_import.delete")
    /\ \A i \in Positions("upload_file"), j \in Positions("freeze") : i < j
    /\ Called("upload_file") => call.raised # "create_bulk_import"
    /\ Called("perform") => call.raised \notin {"upload_file", "freeze"}
    /\ Called("commit") => call.raised # "perform"
    /\ \A i \in Positions("bulk_import.delete") : i = Len(call.ops)

C13_Witness ==
  /\ IsWrite /\ call.writer = "bulk_import" /\ call.result = "ok"
  /\ Len(call.ops) >= 6
  /\ SubSeq(call.ops, Len(call.ops) - 5, Len(call.ops)) =
       <<"create_bulk_import", "upload_file", "freeze", "perform", "commit",
         "bulk_import.delete">>

\* C14 (as stated): a write with a valid policy on a SparkWriter whose
\* session is absent or stopped creates a new session and records the
\* identity of the given table handle, and does not fail with an identity
\* mismatch.
InactiveWriteStep ==
  /\ WriteStep /\ call'.writer = "spark"
  /\ call'.if_exists \in {"error", "overwrite", "append", "ignore"}
  /\ ~(td_spark[call'.self] = "current" /\ ~session.stopped)

Running == session.launched /\ ~session.stopped

InferredType(dtype) ==
  CASE dtype = "int64" -> "bigint" [] dtype = "float64" -> "double" [] OTHER -> "varchar"

C15_OverwriteDeletesThenCreates ==
  (/\ IsWrite /\ call.writer \in {"insert_into", "bulk_import"}
   /\ call.if_exists = "overwrite" /\ call.existed) =>
    /\ Len(call.ops) >= 2 /\ call.ops[2] = "table.delete"
    /\ Positions("table.delete") = {2}
    /\ IF call.raised = "table.delete"
       THEN Len(call.ops) = 2
       ELSE Positions("table.create") = {3}
    /\ \A i \in Positions("query") \cup Positions("create_bulk_import") : i > 3
    /\ (call.writer = "insert_into" /\ Called("table.create")) =>
         /\ call.names = [i \in DOMAIN call.given |-> call.given[i].name]
         /\ call.schema = [i \in DOMAIN call.given |-> InferredType(call.given[i].dtype)]

C15_Witness ==
  /\ IsWrite /\ call.writer = "insert_into" /\ call.if_exists = "overwrite"
  /\ call.existed /\ call.result = "ok"
  /\ call.ops = <<"table.exist", "table.delete", "table.create", "query">>
  /\ call.names = <<"a">> /\ call.schema = <<"double">>

\* C16: InsertIntoWriter invokes table.create exactly once, with the
\* inferred schema, whenever the table is absent, whatever the policy value;
\* a call that neither fails nor returns under "ignore" issues exactly one
\* INSERT query, as its last operation, after every table.delete and
\* table.create of the call, and the rows are then in the table; a call that
\* fails on the policy check or returns under "ignore" issues no query.
C16_CreateWhenAbsentOneInsert ==
  (IsWrite /\ call.writer = "insert_into") =>
    LET noop == call.existed /\ call.if_exists = "ignore"
    IN /\ ~call.existed =>
            /\ Positions("table.create") = {2}
            /\ call.names = [i \in DOMAIN call.given |-> call.given[i].name]
            /\ call.schema =
                 [i \in DOMAIN call.given |-> InferredType(call.given[i].dtype)]
       /\ Cardinality(Positions("query")) <= 1
       /\ \A i \in Positions("table.delete") \cup Positions("table.create"),
             j \in Positions("query") : i < j
       /\ (call.result = "ok" /\ ~noop) =>
            /\ Positions("query") = {Len(call.ops)}
            /\ table.exist /\ table.rows > 0
       /\ (noop \/ call.result \in {"TableExists", "InvalidPolicy"}) =>
            /\ Positions("query") = {}
            /\ call.ops = <<"table.exist">>

\* an absent table and a policy value outside the vocabulary
C16_Witness ==
  /\ IsWrite /\ call.writer = "insert_into" /\ ~call.existed
  /\ call.if_exists = "replace" /\ call.result = "ok"
  /\ call.ops = <<"table.exist", "table.create", "query">>
  /\ call.schema = <<"bigint">>

\* C17: within one write call every remote operation is invoked at most
\* once, and once one of them has raised the call fails and invokes nothing
\* more except the cleanup of what it began (deleting the bulk-import
\* session, removing the downloaded file).
RemoteOps ==
  {"table.delete", "table.create", "query", "create_bulk_import", "upload_file",
   "freeze", "perform", "commit", "getOrCreate", "save", "urlopen"}

C17_NoRetry ==
  IsWrite =>
    /\ \A op \in RemoteOps : Cardinality(Positions(op)) <= 1
    /\ call.raised # "none" =>
         /\ call.result # "ok"
         /\ \A i \in Positions(call.raised), j \in DOMAIN call.ops :
              j > i => call.ops[j] \in {"bulk_import.delete", "os.remove"}

C17_Witness ==
  /\ IsWrite /\ call.writer = "bulk_import" /\ call.raised = "freeze"
  /\ call.result = "UploadFailed"
  /\ call.ops = <<"table.exist", "table.create", "create_bulk_import", "upload_file",
                  "freeze", "bulk_import.delete">>

\* C18 (as stated): in every write call of every writer, each table.create,
\* table.delete and data write comes after an existence check made in that
\* same call.
C18_ExistenceCheckedFirst ==
  IsWrite =>
    \A op \in {"table.create", "table.delete", "query", "create_bulk_import", "save"} :
      Precedes("table.exist", op)

\* C18 (amended): InsertIntoWriter and BulkImportWriter read table.exist as
\* the first operation of every call and decide on that value, which is the
\* table's existence when the call is made.  SparkWriter never reads
\* table.exist: it hands if_exists to the engine as the save mode, and the
\* engine applies the mode to the table as it is at the time of the write.
C18_ExistenceReadOrDelegated ==
  [][WriteStep =>
       IF call'.writer = "spark"
       THEN /\ "table.exist" \notin OpsOf(call'.ops)
            /\ call'.existed = table.exist
            /\ call'.result = "ok" =>
                 /\ call'.if_exists = "error" => ~table.exist
                 /\ (call'.if_exists = "ignore" /\ table.exist) => table' = table
                 /\ table'.exist
            /\ call'.result # "ok" => table' = table
       ELSE /\ call'.ops[1] = "table.exist"
            /\ Cardinality({i \in DOMAIN call'.ops : call'.ops[i] = "table.exist"}) = 1
            /\ call'.existed = table.exist
            /\ "table.delete" \in OpsOf(call'.ops) => table.exist
            /\ call'.result \in {"TableExists", "AppendUnsupported", "InvalidPolicy"} =>
                 table.exist
            /\ call'.ops = <<"table.exist">> => table.exist
            /\ ~table.exist => (Len(call'.ops) >= 2 /\ call'.ops[2] = "table.create")
     ]_vars

\* a call that read the table as absent and created it, whatever the policy
C18_Witness ==
  /\ IsWrite /\ call.writer = "insert_into" /\ call.if_exists = "overwrite"
  /\ ~call.existed /\ call.result = "ok"
  /\ call.ops = <<"table.exist", "table.create", "query">>

\* C19: when _download_td_spark fails, no file is left at the destination
\* and no engine session is launched; an HTTP failure of urlopen gives the
\* remote-access error before any file is opened; a failure to open or to
\* write the destination reaches the caller as it was raised.
C19_FailedDownloadCleansUp ==
  (IsWrite /\ call.writer = "spark" /\ call.raised \in {"urlopen", "open", "write"}) =>
    /\ jar = "absent"
    /\ ~Called("getOrCreate")
    /\ call.raised = "urlopen" =>
         call.result = "DownloadAccessFailed" /\ ~Called("open")
    /\ call.raised \in {"open", "write"} => call.result = "WriteFailed"

\* C20: whenever a SparkWriter has performed an engine write, the session
\* it wrote through is the active session it holds, launched with the
\* apikey and endpoint the writer has recorded, which are those of the
\* table handle of that call.
C20_WritesThroughOwnIdentity ==
  (IsWrite /\ call.writer = "spark" /\ Called("save")) =>
    /\ td_spark[call.self] = "current" /\ session.launched /\ ~session.stopped
    /\ fetched_apikey[call.self] = call.apikey
    /\ fetched_endpoint[call.self] = call.endpoint
    /\ session.apikey = fetched_apikey[call.self]
    /\ session.endpoint = fetched_endpoint[call.self]
====
